---- MODULE Spec2Model ----
(***************************************************************************)
(* cos() of libm/x86/s_cos.S as a state machine: the dispatcher, the fast  *)
(* range reduction, the table-driven evaluator and the special branches,   *)
(* with the SSE2 arithmetic carried out bit for bit on binary64 values.    *)
(***************************************************************************)
EXTENDS Integers, Sequences, FiniteSets, TLC

(***************************************************************************)
(* Natural numbers wider than a machine word, as little-endian sequences   *)
(* of 13-bit limbs.                                                        *)
(***************************************************************************)
LimbBits == 12 + 1
Base == 2^LimbBits

\* F applied to the value of e, which is computed once
Bind(e, F(_)) == CHOOSE r \in {F(v) : v \in {e}} : TRUE

Max(a, b) == IF a >= b THEN a ELSE b
Min(a, b) == IF a <= b THEN a ELSE b

Limb(a, i) == IF i >= 1 /\ i <= Len(a) THEN a[i] ELSE 0

\* index of the most significant non-zero limb, 0 for zero
BTop(a) ==
  LET S == {i \in 1..Len(a) : a[i] # 0}
  IN IF S = {} THEN 0 ELSE CHOOSE i \in S : \A j \in S : j <= i

Trim(a) == SubSeq(a, 1, BTop(a))

\* one round of carries: every limb keeps its low part and takes the high
\* part of the limb below
Pass(a) ==
  [i \in 1..(Len(a) + 1) |-> (Limb(a, i) % Base) + (Limb(a, i - 1) \div Base)] \o <<>>

\* the carry (1) or borrow (-1) into limb i of d, whose limbs lie in
\* 0..2*Base-2 (sums) or in 1-Base..Base-1 (differences)
Carry(d, i) ==
  IF \E j \in 1..(i - 1) :
       d[j] >= Base /\ \A k \in (j + 1)..(i - 1) : d[k] = Base - 1
    THEN 1
  ELSE IF \E j \in 1..(i - 1) :
       d[j] < 0 /\ \A k \in (j + 1)..(i - 1) : d[k] = 0
    THEN -1
  ELSE 0

Ripple(d) ==
  [i \in 1..(Len(d) + 1) |-> (Limb(d, i) + Carry(d, i)) % Base] \o <<>>

\* limbs in 1-Base..2*Base-2 brought into 0..Base-1
BNorm(a) == Bind(Ripple(a), LAMBDA r : Trim(r))

WordLen(n) == Cardinality({k \in 0..LimbBits : 2^k <= n})

BitLen(a) ==
  LET h == BTop(a)
  IN IF h = 0 THEN 0 ELSE (h - 1) * LimbBits + WordLen(a[h])

BIsZero(a) == \A i \in 1..Len(a) : a[i] = 0

BCmp(a, b) ==
  LET D == {i \in 1..Max(Len(a), Len(b)) : Limb(a, i) # Limb(b, i)}
      h == CHOOSE i \in D : \A j \in D : j <= i
  IN IF D = {} THEN 0 ELSE IF Limb(a, h) > Limb(b, h) THEN 1 ELSE -1

BAdd(a, b) == BNorm([i \in 1..Max(Len(a), Len(b)) |-> Limb(a, i) + Limb(b, i)] \o <<>>)
BSub(a, b) == BNorm([i \in 1..Max(Len(a), Len(b)) |-> Limb(a, i) - Limb(b, i)] \o <<>>)

\* column k of the schoolbook product, limbs lo..hi of a
RECURSIVE ColSum(_, _, _, _, _)
ColSum(a, b, k, lo, hi) ==
  IF lo > hi THEN 0
  ELSE IF lo = hi THEN Limb(a, lo) * Limb(b, k + 1 - lo)
  ELSE ColSum(a, b, k, lo, (lo + hi) \div 2)
       + ColSum(a, b, k, (lo + hi) \div 2 + 1, hi)

\* the columns (each below 2^31) spread over three limbs, then one round of
\* carries: limbs below 3*Base
Spread(c) ==
  [i \in 1..(Len(c) + 2) |->
     (Limb(c, i) % Base) + ((Limb(c, i - 1) \div Base) % Base)
     + (Limb(c, i - 2) \div (Base * Base))] \o <<>>

BMul(a, b) ==
  IF a = <<>> \/ b = <<>> THEN <<>>
  ELSE Bind([k \in 1..(Len(a) + Len(b) - 1) |-> ColSum(a, b, k, 1, Len(a))] \o <<>>,
         LAMBDA c : Bind(Pass(Spread(c)), LAMBDA p : BNorm(p)))

BShl(a, k) ==
  LET q == k \div LimbBits
      m == 2^(k % LimbBits)
  IN [i \in 1..(Len(a) + q + 1) |->
        ((Limb(a, i - q) * m) % Base) + ((Limb(a, i - q - 1) * m) \div Base)] \o <<>>

BShr(a, k) ==
  LET q == k \div LimbBits
      b == k % LimbBits
  IN [i \in 1..Max(Len(a) - q, 0) |->
        (Limb(a, i + q) \div 2^b) + (Limb(a, i + q + 1) % 2^b) * 2^(LimbBits - b)] \o <<>>

BBit(a, k) == (Limb(a, k \div LimbBits + 1) \div 2^(k % LimbBits)) % 2

\* some bit below position k is set
BSticky(a, k) ==
  LET q == k \div LimbBits
      b == k % LimbBits
  IN (\E i \in 1..Min(q, Len(a)) : a[i] # 0) \/ Limb(a, q + 1) % 2^b # 0

\* 0 <= n < 2^31
BFromInt(n) == Trim(<<n % Base, (n \div Base) % Base, n \div (Base * Base)>>)

\* value of a bignum known to be below 2^31
BToInt(a) == Limb(a, 1) + Base * Limb(a, 2) + Base * Base * Limb(a, 3)

(***************************************************************************)
(* IEEE-754 binary64.  A double is its four 16-bit words <<w0,w1,w2,w3>>,  *)
(* w3 the most significant (sign, exponent, top four fraction bits).       *)
(***************************************************************************)
SignOf(d) == d[4] \div 32768
ExpOf(d) == (d[4] % 32768) \div 16
IsNaN(d) == ExpOf(d) = 2047 /\ (d[4] % 16 # 0 \/ d[3] # 0 \/ d[2] # 0 \/ d[1] # 0)
IsInf(d) == ExpOf(d) = 2047 /\ d[4] % 16 = 0 /\ d[3] = 0 /\ d[2] = 0 /\ d[1] = 0
IsZero(d) == d[4] % 32768 = 0 /\ d[3] = 0 /\ d[2] = 0 /\ d[1] = 0
Neg(d) == <<d[1], d[2], d[3], (d[4] + 32768) % 65536>>
Abs(d) == <<d[1], d[2], d[3], d[4] % 32768>>
Zero(s) == <<0, 0, 0, 32768 * s>>
Infinity(s) == <<0, 0, 0, 32768 * s + 32752>>
DefaultNaN == <<0, 0, 0, 65528>>

\* the 53-bit significand of a finite double as limbs
Sig(d) ==
  <<d[1] % 8192,
    d[1] \div 8192 + (d[2] % 1024) * 8,
    d[2] \div 1024 + (d[3] % 128) * 64,
    d[3] \div 128 + (d[4] % 16) * 512,
    IF ExpOf(d) = 0 THEN 0 ELSE 1>>

\* a finite double as  (-1)^s * m * 2^e
Unpack(d) == [s |-> SignOf(d), m |-> Sig(d), e |-> Max(ExpOf(d), 1) - 1075]

\* pack sign, biased exponent and a significand below 2^53 (limbs)
Pack(s, be, m) ==
  <<Limb(m, 1) + (Limb(m, 2) % 8) * 8192,
    Limb(m, 2) \div 8 + (Limb(m, 3) % 64) * 1024,
    Limb(m, 3) \div 64 + (Limb(m, 4) % 512) * 128,
    Limb(m, 4) \div 512 + be * 16 + s * 32768>>

\* m / 2^sh to the nearest integer, ties to even (m * 2^-sh when sh <= 0)
Chop(m, sh) ==
  IF sh <= 0 THEN BShl(m, -sh)
  ELSE IF BBit(m, sh - 1) = 1 /\ (BSticky(m, sh - 1) \/ BBit(m, sh) = 1)
    THEN Bind(BShr(m, sh), LAMBDA fl : BAdd(fl, <<1>>))
  ELSE BShr(m, sh)

\* sign, significand r (at most 54 bits) and exponent q as a double
Encode(s, r, q) ==
  LET n == BitLen(r)
  IN IF n = 54 THEN (IF q + 1076 >= 2047 THEN Infinity(s)
                     ELSE Pack(s, q + 1076, BShr(r, 1)))
     ELSE IF n = 53 THEN (IF q + 1075 >= 2047 THEN Infinity(s)
                          ELSE Pack(s, q + 1075, r))
     ELSE Pack(s, 0, r)

\* round (-1)^s * m * 2^e to the nearest double, ties to even
Round(s, m, e) ==
  LET q == Max(e + BitLen(m) - 53, -1074)
  IN IF BIsZero(m) THEN Zero(s)
     ELSE Bind(Chop(m, q - e), LAMBDA r : Encode(s, r, q))

\* sum of two dyadic numbers with aligned significands
XAddAligned(sa, ma, sb, mb, e) ==
  IF sa = sb THEN [s |-> sa, m |-> BAdd(ma, mb), e |-> e]
  ELSE IF BCmp(ma, mb) = 0 THEN [s |-> 0, m |-> <<>>, e |-> e]
  ELSE IF BCmp(ma, mb) > 0 THEN [s |-> sa, m |-> BSub(ma, mb), e |-> e]
  ELSE [s |-> sb, m |-> BSub(mb, ma), e |-> e]

\* exact sum of two dyadic numbers [s, m, e]
XAdd(a, b) ==
  Bind(<<BShl(a.m, a.e - Min(a.e, b.e)), BShl(b.m, b.e - Min(a.e, b.e))>>,
       LAMBDA p : XAddAligned(a.s, p[1], b.s, p[2], Min(a.e, b.e)))

XMul(a, b) == [s |-> (a.s + b.s) % 2, m |-> BMul(a.m, b.m), e |-> a.e + b.e]
XNeg(a) == [a EXCEPT !.s = 1 - a.s]

\* an operand too small to reach the rounding position is kept as one sticky unit
Squash(big, small) ==
  IF big.e - small.e > 56 /\ ~BIsZero(small.m) /\ ~BIsZero(big.m)
    THEN [s |-> small.s, m |-> <<1>>, e |-> big.e - 3]
    ELSE small

FAddFinite(a, b) ==
  Bind(<<Squash(Unpack(b), Unpack(a)), Squash(Unpack(a), Unpack(b))>>, LAMBDA v :
    Bind(XAdd(v[1], v[2]), LAMBDA t :
      IF BIsZero(t.m)
        THEN (IF IsZero(a) /\ IsZero(b) /\ SignOf(a) = SignOf(b)
                THEN Zero(SignOf(a)) ELSE Zero(0))
        ELSE Round(t.s, t.m, t.e)))

Quiet(d) == <<d[1], d[2], d[3], d[4] - (d[4] % 16) + 8 + (d[4] % 8)>>

\* addsd / subsd / mulsd under the default MXCSR (round to nearest, masked)
FAdd(a, b) ==
  IF IsNaN(a) THEN Quiet(a)
  ELSE IF IsNaN(b) THEN Quiet(b)
  ELSE IF IsInf(a) THEN (IF IsInf(b) /\ SignOf(a) # SignOf(b) THEN DefaultNaN ELSE a)
  ELSE IF IsInf(b) THEN b
  ELSE FAddFinite(a, b)

FMul(a, b) ==
  IF IsNaN(a) THEN Quiet(a)
  ELSE IF IsNaN(b) THEN Quiet(b)
  ELSE IF IsInf(a) \/ IsInf(b)
    THEN (IF IsZero(a) \/ IsZero(b) THEN DefaultNaN
          ELSE Infinity((SignOf(a) + SignOf(b)) % 2))
  ELSE Bind(BMul(Sig(a), Sig(b)), LAMBDA p :
         Round((SignOf(a) + SignOf(b)) % 2, p, Unpack(a).e + Unpack(b).e))

FSub(a, b) == IF IsNaN(b) /\ ~IsNaN(a) THEN Quiet(b) ELSE FAdd(a, Neg(b))

\* cvtsd2si: to the nearest integer, ties to even
Cvttsd2si_Nearest(d) ==
  Bind(Unpack(d), LAMBDA u :
    Bind(IF u.e >= 0 THEN BShl(u.m, u.e) ELSE Chop(u.m, -u.e), LAMBDA t :
      IF ExpOf(d) = 2047 \/ u.e > 0 \/ BitLen(t) > 31 THEN -2147483647 - 1
      ELSE IF u.s = 1 THEN -BToInt(t) ELSE BToInt(t)))

\* cvttsd2si: truncate toward zero; the integer indefinite when out of range
Cvttsd2si(d) ==
  Bind(Unpack(d), LAMBDA u :
    Bind(IF u.e >= 0 THEN BShl(u.m, u.e) ELSE BShr(u.m, -u.e), LAMBDA t :
      IF ExpOf(d) = 2047 \/ u.e > 0 \/ BitLen(t) > 31 THEN -2147483647 - 1
      ELSE IF u.s = 1 THEN -BToInt(t) ELSE BToInt(t)))

\* cvtsi2sd: exact
Cvtsi2sd(n) ==
  IF n >= 0 THEN Bind(BFromInt(n), LAMBDA m : Round(0, m, 0))
  ELSE IF n = -2147483647 - 1 THEN <<0, 0, 0, 49632>>
  ELSE Bind(BFromInt(-n), LAMBDA m : Round(1, m, 0))

(***************************************************************************)
(* static_const_table (.rodata) as 16-bit words in memory order: every     *)
(* `.long v` of the source is the pair  v % 65536, v \div 65536 ; one row  *)
(* below is 16 bytes.  Rows 1..128 are the 64 angle entries (32 bytes      *)
(* each), the rest are the polynomial and reduction constants.             *)
(***************************************************************************)
static_const_table == <<
      0,     0,     0,     0,     0,     0,     0,     0,
      0,     0,     0,     0,     0,     0,     0, 16368,
  27953,  5997, 47406, 49011, 46124, 48169,  6054, 16313,
      0, 57344, 10008, 48190,     0,     0,     0, 16368,
  27131,   276, 44294, 49043, 42507, 15465, 63672, 16328,
      0, 49152, 27929, 48226,     0,     0,     0, 16368,
   8794, 37789,  3050, 49062, 40710, 11989, 37894, 16338,
      0, 40960, 53901, 48245,     0,     0,     0, 16368,
  38351, 34411, 31905, 49075, 43363, 42670, 32226, 16344,
      0, 57344, 11501, 48231,     0,     0,     0, 16368,
   4729, 29690, 14952, 49086, 63035, 14342, 11101, 16350,
      0,  8192,  3465, 15454,     0,     0,     0, 16368,
  31092, 23493, 37479, 49093, 26824, 14766, 51003, 16353,
      0,  8192,  9693, 15499,     0,     0,     0, 16368,
  41725, 21419,  3582, 49101,  7638,  9481, 19699, 16356,
      0,  8192,  1898, 15464,     0,     0,     0, 16368,
  61234, 39420, 33401, 16330, 15309, 26239, 41118, 16358,
      0,  8192, 56628, 48267,     0,     0,     0, 16352,
  30552, 37924, 13260, 16321,  5953, 27413, 48256, 16360,
      0,  8192, 50657, 48258,     0,     0,     0, 16352,
  35975, 39654, 29619, 16300, 41379, 10510, 39782, 16362,
      0, 57344, 63024, 15417,     0,     0,     0, 16352,
  40014, 32656, 18988, 49053, 48561, 61824, 14514, 16364,
      0, 32768, 57521, 48246,     0,     0,     0, 16352,
  23157, 25925,  2165, 49086, 36166, 53042, 36971, 16365,
      0,  8192, 22502, 15476,     0,     0,     0, 16352,
  63533, 30380, 41009, 16292, 11738, 22214, 40769, 16366,
      0, 57344, 24753, 15495,     0,     0,     0, 16336,
  26581,  3673,  7455, 49068, 23728, 53239, 25239, 16367,
      0,  8192, 25111, 15477,     0,     0,     0, 16336,
  12112,  3929, 41317, 49051,  9510, 41937, 55437, 16367,
      0, 16384, 32246, 48264,     0,     0,     0, 16320,
      0,     0,     0,     0,     0,     0,     0, 16368,
      0,     0,     0,     0,     0,     0,     0,     0,
  12112,  3929, 41317, 16283,  9510, 41937, 55437, 16367,
      0, 16384, 32246, 48264,     0,     0,     0, 49088,
  26581,  3673,  7455, 16300, 23728, 53239, 25239, 16367,
      0,  8192, 25111, 15477,     0,     0,     0, 49104,
  63533, 30380, 41009, 49060, 11738, 22214, 40769, 16366,
      0, 57344, 24753, 15495,     0,     0,     0, 49104,
  23157, 25925,  2165, 16318, 36166, 53042, 36971, 16365,
      0,  8192, 22502, 15476,     0,     0,     0, 49120,
  40014, 32656, 18988, 16285, 48561, 61824, 14514, 16364,
      0, 32768, 57521, 48246,     0,     0,     0, 49120,
  35975, 39654, 29619, 49068, 41379, 10510, 39782, 16362,
      0, 57344, 63024, 15417,     0,     0,     0, 49120,
  30552, 37924, 13260, 49089,  5953, 27413, 48256, 16360,
      0,  8192, 50657, 48258,     0,     0,     0, 49120,
  61234, 39420, 33401, 49098, 15309, 26239, 41118, 16358,
      0,  8192, 56628, 48267,     0,     0,     0, 49120,
  41725, 21419,  3582, 16333,  7638,  9481, 19699, 16356,
      0,  8192,  1898, 15464,     0,     0,     0, 49136,
  31092, 23493, 37479, 16325, 26824, 14766, 51003, 16353,
      0,  8192,  9693, 15499,     0,     0,     0, 49136,
   4729, 29690, 14952, 16318, 63035, 14342, 11101, 16350,
      0,  8192,  3465, 15454,     0,     0,     0, 49136,
  38351, 34411, 31905, 16307, 43363, 42670, 32226, 16344,
      0, 57344, 11501, 48231,     0,     0,     0, 49136,
   8794, 37789,  3050, 16294, 40710, 11989, 37894, 16338,
      0, 40960, 53901, 48245,     0,     0,     0, 49136,
  27131,   276, 44294, 16275, 42507, 15465, 63672, 16328,
      0, 49152, 27929, 48226,     0,     0,     0, 49136,
  27953,  5997, 47406, 16243, 46124, 48169,  6054, 16313,
      0, 57344, 10008, 48190,     0,     0,     0, 49136,
      0,     0,     0,     0,     0,     0,     0,     0,
      0,     0,     0,     0,     0,     0,     0, 49136,
  27953,  5997, 47406, 16243, 46124, 48169,  6054, 49081,
      0, 57344, 10008, 15422,     0,     0,     0, 49136,
  27131,   276, 44294, 16275, 42507, 15465, 63672, 49096,
      0, 49152, 27929, 15458,     0,     0,     0, 49136,
   8794, 37789,  3050, 16294, 40710, 11989, 37894, 49106,
      0, 40960, 53901, 15477,     0,     0,     0, 49136,
  38351, 34411, 31905, 16307, 43363, 42670, 32226, 49112,
      0, 57344, 11501, 15463,     0,     0,     0, 49136,
   4729, 29690, 14952, 16318, 63035, 14342, 11101, 49118,
      0,  8192,  3465, 48222,     0,     0,     0, 49136,
  31092, 23493, 37479, 16325, 26824, 14766, 51003, 49121,
      0,  8192,  9693, 48267,     0,     0,     0, 49136,
  41725, 21419,  3582, 16333,  7638,  9481, 19699, 49124,
      0,  8192,  1898, 48232,     0,     0,     0, 49136,
  61234, 39420, 33401, 49098, 15309, 26239, 41118, 49126,
      0,  8192, 56628, 15499,     0,     0,     0, 49120,
  30552, 37924, 13260, 49089,  5953, 27413, 48256, 49128,
      0,  8192, 50657, 15490,     0,     0,     0, 49120,
  35975, 39654, 29619, 49068, 41379, 10510, 39782, 49130,
      0, 57344, 63024, 48185,     0,     0,     0, 49120,
  40014, 32656, 18988, 16285, 48561, 61824, 14514, 49132,
      0, 32768, 57521, 15478,     0,     0,     0, 49120,
  23157, 25925,  2165, 16318, 36166, 53042, 36971, 49133,
      0,  8192, 22502, 48244,     0,     0,     0, 49120,
  63533, 30380, 41009, 49060, 11738, 22214, 40769, 49134,
      0, 57344, 24753, 48263,     0,     0,     0, 49104,
  26581,  3673,  7455, 16300, 23728, 53239, 25239, 49135,
      0,  8192, 25111, 48245,     0,     0,     0, 49104,
  12112,  3929, 41317, 16283,  9510, 41937, 55437, 49135,
      0, 16384, 32246, 15496,     0,     0,     0, 49088,
      0,     0,     0,     0,     0,     0,     0, 49136,
      0,     0,     0,     0,     0,     0,     0,     0,
  12112,  3929, 41317, 49051,  9510, 41937, 55437, 49135,
      0, 16384, 32246, 15496,     0,     0,     0, 16320,
  26581,  3673,  7455, 49068, 23728, 53239, 25239, 49135,
      0,  8192, 25111, 48245,     0,     0,     0, 16336,
  63533, 30380, 41009, 16292, 11738, 22214, 40769, 49134,
      0, 57344, 24753, 48263,     0,     0,     0, 16336,
  23157, 25925,  2165, 49086, 36166, 53042, 36971, 49133,
      0,  8192, 22502, 48244,     0,     0,     0, 16352,
  40014, 32656, 18988, 49053, 48561, 61824, 14514, 49132,
      0, 32768, 57521, 15478,     0,     0,     0, 16352,
  35975, 39654, 29619, 16300, 41379, 10510, 39782, 49130,
      0, 57344, 63024, 48185,     0,     0,     0, 16352,
  30552, 37924, 13260, 16321,  5953, 27413, 48256, 49128,
      0,  8192, 50657, 15490,     0,     0,     0, 16352,
  61234, 39420, 33401, 16330, 15309, 26239, 41118, 49126,
      0,  8192, 56628, 15499,     0,     0,     0, 16352,
  41725, 21419,  3582, 49101,  7638,  9481, 19699, 49124,
      0,  8192,  1898, 48232,     0,     0,     0, 16368,
  31092, 23493, 37479, 49093, 26824, 14766, 51003, 49121,
      0,  8192,  9693, 48267,     0,     0,     0, 16368,
   4729, 29690, 14952, 49086, 63035, 14342, 11101, 49118,
      0,  8192,  3465, 48222,     0,     0,     0, 16368,
  38351, 34411, 31905, 49075, 43363, 42670, 32226, 49112,
      0, 57344, 11501, 15463,     0,     0,     0, 16368,
   8794, 37789,  3050, 49062, 40710, 11989, 37894, 49106,
      0, 40960, 53901, 15477,     0,     0,     0, 16368,
  27131,   276, 44294, 49043, 42507, 15465, 63672, 49096,
      0, 49152, 27929, 15458,     0,     0,     0, 16368,
  27953,  5997, 47406, 49011, 46124, 48169,  6054, 49081,
      0, 57344, 10008, 15422,     0,     0,     0, 16368,
  21845, 21845, 21845, 49093,     0,     0,     0, 49120,
   4369,  4369,  4369, 16257, 21845, 21845, 21845, 16293,
  40986,  6657,   416, 48938, 27671,  5825, 49516, 48982,
  50996, 42326,  7651, 16071, 40986,  6657,   416, 16122,
      0,  6752, 46177, 15760,     0,  6752, 46177, 15760,
      0, 21568,  8699, 16313,     0,     0,     0,     0,
  28787, 11779,  6538, 15203,     0,     0,     0,     0,
  51331, 28105, 24368, 16420,     0,     0,     0,     0,
      0,     0,     0, 17208,     0,     0,     0,     0,
      0,     0,     0, 16368,     0,     0,     0,     0,
      0,     0,     0, 32768,     0,     0,     0,     0,
      0,     0,     0, 32768,     0,     0,     0,     0,
      0,     0,     0, 16352,     0,     0,     0, 16352
>>

\* the double stored at byte offset off of static_const_table
Load64(off) ==
  <<static_const_table[off \div 2 + 1], static_const_table[off \div 2 + 2],
    static_const_table[off \div 2 + 3], static_const_table[off \div 2 + 4]>>

(***************************************************************************)
(* Memory.  A cell is named by its segment, the thread whose frame it is   *)
(* in (0 for static data) and its byte offset: stack offsets are relative  *)
(* to %esp after `subl $120, %esp`, static offsets to static_const_table.  *)
(* mem holds the cells written so far; any other static cell still has the *)
(* value the loader put there.                                             *)
(***************************************************************************)
StackAddr(t, off) == [seg |-> "stack", tid |-> t, off |-> off]
StaticAddr(off) == [seg |-> "static", tid |-> 0, off |-> off]
NoWrites == [a \in {} |-> 0]
Read(m, a) ==
  IF a \in DOMAIN m THEN m[a]
  ELSE IF a.seg = "static" THEN Load64(a.off) ELSE Zero(0)
Write(m, a, v) == [b \in DOMAIN m \cup {a} |-> IF b = a THEN v ELSE m[b]]

(***************************************************************************)
(* The dispatcher's tests.                                                 *)
(***************************************************************************)
TinyBound == 12336
FastSpan == 4293
IndexBias == 1865232
ExpMaskHi == 32752

\* bitwise and / or of two 16-bit words
RECURSIVE AndW(_, _, _)
AndW(a, b, w) ==
  IF w = 1 THEN a * b
  ELSE LET h == w \div 2
       IN AndW(a % (2^h), b % (2^h), h) + (2^h) * AndW(a \div (2^h), b \div (2^h), h)

RECURSIVE OrW(_, _, _)
OrW(a, b, w) ==
  IF w = 1 THEN Max(a, b)
  ELSE LET h == w \div 2
       IN OrW(a % (2^h), b % (2^h), h) + (2^h) * OrW(a \div (2^h), b \div (2^h), h)

And16(a, b) == AndW(a, b, 16)
Or16(a, b) == OrW(a, b, 16)

And64(a, b) == [i \in 1..4 |-> And16(a[i], b[i])]
Or64(a, b) == [i \in 1..4 |-> Or16(a[i], b[i])]

\* pextrw $3, %xmm0, %eax ; andl $32767, %eax
HighWord(x) == And16(x[4], 32767)

Above_Signed(a, b) == a > b

\* unsigned `above` of two 32-bit registers held as two's-complement integers
Above(a, b) == IF (a < 0) = (b < 0) THEN a > b ELSE a < 0

\* movl 132(%esp), %eax ; andl $2146435072, %eax ; cmpl $2146435072, %eax
ExpAllOnes(x) == And16(x[4], ExpMaskHi) = ExpMaskHi

Branch_WideSpan(x) ==
  LET eax == HighWord(x) - TinyBound
  IN IF ~Above(eax, FastSpan + 100) THEN "fast"
     ELSE IF eax > FastSpan + 100 THEN (IF ExpAllOnes(x) THEN "special" ELSE "huge")
     ELSE "tiny"

\* subl $12336 ; cmpl $4293 ; ja ; jg ; je
Branch(x) ==
  LET eax == HighWord(x) - TinyBound
  IN IF ~Above(eax, FastSpan) THEN "fast"
     ELSE IF eax > FastSpan THEN (IF ExpAllOnes(x) THEN "special" ELSE "huge")
     ELSE "tiny"

(***************************************************************************)
(* The fast reducer.                                                       *)
(***************************************************************************)
SignedHalf_NoSign(m, x) == Read(m, StaticAddr(2240))

\* andpd with the sign mask, orps into 0.5: 0.5 carrying the sign of x
SignedHalf(m, x) ==
  Or64(Read(m, StaticAddr(2240)), And64(Read(m, StaticAddr(2224)), x))

\* y = x * 32/pi ; add the signed 0.5 ; cvttsd2si ; cvtsi2sdl
FastN(m, x) ==
  Bind(FMul(Read(m, StaticAddr(2160)), x), LAMBDA y :
    Bind(FAdd(y, SignedHalf(m, x)), LAMBDA s :
      Bind(Cvttsd2si(s), LAMBDA n :
        [y |-> y, s |-> s, N |-> n, Nf |-> Cvtsi2sd(n)])))

EntryOffset_NoBias(n) == (n % 64) * 32

\* addl $1865232, %edx ; andl $63, %edx ; shll $5, %edx ; addl %edx, %eax :
\* the byte offset of the selected angle entry
EntryOffset(n) == ((n + IndexBias) % 64) * 32

FastReduce_P3ForP1(m, x, Nf) ==
  Bind([m1 |-> FMul(Read(m, StaticAddr(2144)), Nf),
        m2 |-> FMul(Read(m, StaticAddr(2112)), Nf),
        m3 |-> FMul(Nf, Read(m, StaticAddr(2144)))], LAMBDA p :
    Bind(FSub(x, p.m1), LAMBDA r1 :
      Bind(FSub(r1, p.m2), LAMBDA r :
        Bind(FSub(r1, r), LAMBDA c1 :
          Bind(FSub(c1, p.m2), LAMBDA c2 :
            [m1 |-> p.m1, m2 |-> p.m2, m3 |-> p.m3, r1 |-> r1, r |-> r,
             c1 |-> c1, c2 |-> c2, negc |-> FSub(p.m3, c2)])))))

FastReduce_NoM2(m, x, Nf) ==
  Bind([m1 |-> FMul(Read(m, StaticAddr(2128)), Nf),
        m2 |-> FMul(Read(m, StaticAddr(2112)), Nf),
        m3 |-> FMul(Nf, Read(m, StaticAddr(2144)))], LAMBDA p :
    Bind(FSub(x, p.m1), LAMBDA r1 :
      Bind(FSub(r1, p.m2), LAMBDA r :
        Bind(FSub(r1, r), LAMBDA c1 :
          [m1 |-> p.m1, m2 |-> p.m2, m3 |-> p.m3, r1 |-> r1, r |-> r,
           c1 |-> c1, c2 |-> c1, negc |-> FSub(p.m3, c1)]))))

\* m_1, m_2, m_3, r_1, r, c_1, c_2 and -c
FastReduce(m, x, Nf) ==
  Bind([m1 |-> FMul(Read(m, StaticAddr(2128)), Nf),
        m2 |-> FMul(Read(m, StaticAddr(2112)), Nf),
        m3 |-> FMul(Nf, Read(m, StaticAddr(2144)))], LAMBDA p :
    Bind(FSub(x, p.m1), LAMBDA r1 :
      Bind(FSub(r1, p.m2), LAMBDA r :
        Bind(FSub(r1, r), LAMBDA c1 :
          Bind(FSub(c1, p.m2), LAMBDA c2 :
            [m1 |-> p.m1, m2 |-> p.m2, m3 |-> p.m3, r1 |-> r1, r |-> r,
             c1 |-> c1, c2 |-> c2, negc |-> FSub(p.m3, c2)])))))

(***************************************************************************)
(* The evaluator: the table entry at byte offset e of the table, the       *)
(* polynomial in both lanes, the correction term and the two compensated   *)
(* summations.  The entry's doubles at offsets 0, 8, 16 and 24 are used as *)
(* C_hl, S_hi, S_lo and sigma.                                             *)
(***************************************************************************)
EvalLoads_SwapS(m, e, r1, r, negc) ==
  [r1 |-> r1, r |-> r, negc |-> negc,
   C_hl |-> Read(m, StaticAddr(e)),
   S_lo |-> Read(m, StaticAddr(e + 8)),
   S_hi |-> Read(m, StaticAddr(e + 16)),
   sigma |-> Read(m, StaticAddr(e + 24)),
   psc4_lo |-> FMul(Read(m, StaticAddr(2096)), r1),
   psc4_hi |-> FMul(Read(m, StaticAddr(2104)), r1),
   r2 |-> FMul(r, r)]

EvalLoads_SigmaFirst(m, e, r1, r, negc) ==
  [r1 |-> r1, r |-> r, negc |-> negc,
   sigma |-> Read(m, StaticAddr(e)),
   C_hl |-> Read(m, StaticAddr(e + 8)),
   S_hi |-> Read(m, StaticAddr(e + 16)),
   S_lo |-> Read(m, StaticAddr(e + 24)),
   psc4_lo |-> FMul(Read(m, StaticAddr(2096)), r1),
   psc4_hi |-> FMul(Read(m, StaticAddr(2104)), r1),
   r2 |-> FMul(r, r)]

\* the entry's four doubles, r^2 and the first product of each lane
EvalLoads(m, e, r1, r, negc) ==
  [r1 |-> r1, r |-> r, negc |-> negc,
   C_hl |-> Read(m, StaticAddr(e)),
   S_hi |-> Read(m, StaticAddr(e + 8)),
   S_lo |-> Read(m, StaticAddr(e + 16)),
   sigma |-> Read(m, StaticAddr(e + 24)),
   psc4_lo |-> FMul(Read(m, StaticAddr(2096)), r1),
   psc4_hi |-> FMul(Read(m, StaticAddr(2104)), r1),
   r2 |-> FMul(r, r)]

EvalProducts(m, a) ==
  [msc4_lo |-> FMul(a.psc4_lo, a.r),
   msc4_hi |-> FMul(a.psc4_hi, a.r),
   r4 |-> FMul(a.r2, a.r2),
   msc2_lo |-> FMul(Read(m, StaticAddr(2064)), a.r2),
   msc2_hi |-> FMul(Read(m, StaticAddr(2072)), a.r2),
   cs |-> FAdd(a.C_hl, a.sigma),
   sr |-> FMul(a.S_hi, a.r),
   x2_hi |-> FMul(a.S_hi, a.r2),
   rs |-> FMul(a.sigma, a.r),
   med |-> FMul(a.r, a.C_hl)]

EvalSums(m, a) ==
  [psc3_lo |-> FAdd(a.msc4_lo, Read(m, StaticAddr(2080))),
   psc3_hi |-> FAdd(a.msc4_hi, Read(m, StaticAddr(2088))),
   psc1_lo |-> FAdd(a.msc2_lo, Read(m, StaticAddr(2048))),
   psc1_hi |-> FAdd(a.msc2_hi, Read(m, StaticAddr(2056))),
   negd |-> FSub(a.sr, a.cs),
   csr |-> FMul(a.cs, a.r),
   res_int |-> FAdd(a.rs, a.S_hi)]

EvalHigh(a) ==
  [msc3_lo |-> FMul(a.psc3_lo, a.r4),
   msc3_hi |-> FMul(a.psc3_hi, a.r4),
   x2_lo |-> FMul(a.csr, a.r2),
   res_hi |-> FAdd(a.med, a.res_int),
   k0 |-> FSub(a.S_hi, a.res_int),
   cd |-> FMul(a.negc, a.negd)]

EvalTerms(a) ==
  [scp_lo |-> FAdd(a.psc1_lo, a.msc3_lo),
   scp_hi |-> FAdd(a.psc1_hi, a.msc3_hi),
   k1 |-> FSub(a.res_int, a.res_hi),
   k2 |-> FAdd(a.k0, a.rs),
   corr |-> FAdd(a.cd, a.S_lo)]

EvalLast(a) ==
  [C_hl |-> a.C_hl, S_hi |-> a.S_hi, S_lo |-> a.S_lo, sigma |-> a.sigma,
   negd |-> a.negd, rs |-> a.rs, med |-> a.med,
   res_int |-> a.res_int, res_hi |-> a.res_hi,
   k0 |-> a.k0, k1 |-> a.k1, k2 |-> a.k2, k3 |-> FAdd(a.k1, a.med),
   corr |-> a.corr,
   pols_lo |-> FMul(a.scp_lo, a.x2_lo), pols_hi |-> FMul(a.scp_hi, a.x2_hi)]

Evaluator(m, e, r1, r, negc) ==
  Bind(EvalLoads(m, e, r1, r, negc), LAMBDA a :
    Bind(a @@ EvalProducts(m, a), LAMBDA b :
      Bind(b @@ EvalSums(m, b), LAMBDA c :
        Bind(c @@ EvalHigh(c), LAMBDA d :
          Bind(d @@ EvalTerms(d), LAMBDA f : EvalLast(f))))))

\* ((((a + b) + c) + d) + e), every addition rounded
Sum5(a, b, c, d, e) ==
  Bind(FAdd(a, b), LAMBDA a1 :
    Bind(FAdd(a1, c), LAMBDA a2 :
      Bind(FAdd(a2, d), LAMBDA a3 : FAdd(a3, e))))

LowSum_K1(ev) == Sum5(ev.corr, ev.k1, ev.k3, ev.pols_lo, ev.pols_hi)

\* the additions into %xmm1: corr, k2, k3 and the two lanes of pols
LowSum(ev) == Sum5(ev.corr, ev.k2, ev.k3, ev.pols_lo, ev.pols_hi)

FinalSum(ev) ==
  Bind(LowSum(ev), LAMBDA lo : [res_lo |-> lo, res |-> FAdd(ev.res_hi, lo)])

(***************************************************************************)
(* The small-argument and the non-finite branches.                         *)
(***************************************************************************)
\* pextrw / andl $32767 / pinsrw : x with its sign bit cleared
ClearSign(x) == <<x[1], x[2], x[3], And16(x[4], 32767)>>

TinyResult_Swapped(m, x) == FSub(ClearSign(x), Read(m, StaticAddr(2192)))

\* movsd 2192(%ebx), %xmm1 ; subsd %xmm0, %xmm1
TinyResult(m, x) == FSub(Read(m, StaticAddr(2192)), ClearSign(x))

IsSNaN(d) == IsNaN(d) /\ And16(d[4], 8) = 0

\* fldl 128(%esp) ; fmull 2208(%ebx) : value left in st(0), and whether the
\* x87 invalid-operation flag is raised by either instruction
SpecialResult(m, x) ==
  LET k == Read(m, StaticAddr(2208))
      ld == IF IsSNaN(x) THEN Quiet(x) ELSE x
  IN [v |-> FMul(ld, k),
      ie |-> IsSNaN(x) \/ IsSNaN(k)
             \/ (IsInf(ld) /\ IsZero(k)) \/ (IsZero(ld) /\ IsInf(k))]

(***************************************************************************)
(* __libm_sincos_huge, the large-argument routine cos calls (it is not in  *)
(* s_cos.S).  It reduces x to a double-double remainder (y0, y1) and an    *)
(* integer n with  x = n*pi/32 + y0 + y1  beyond double precision, and     *)
(* evaluates that through the same table; the double it leaves in the      *)
(* caller's buffer is the cosine.                                          *)
(***************************************************************************)
\* the three products N * P_i, exact
LargeProducts(m, Nf) ==
  <<XNeg(XMul(Unpack(Nf), Unpack(Read(m, StaticAddr(2128))))),
    XNeg(XMul(Unpack(Nf), Unpack(Read(m, StaticAddr(2112))))),
    XNeg(XMul(Unpack(Nf), Unpack(Read(m, StaticAddr(2144)))))>>

LargeSum(x, p) ==
  Bind(XAdd(Unpack(x), p[1]), LAMBDA t1 :
    Bind(XAdd(t1, p[2]), LAMBDA t2 : XAdd(t2, p[3])))

LargeSplit(t, n) ==
  Bind(Round(t.s, t.m, t.e), LAMBDA y0 :
    Bind(<<XNeg(Unpack(y0))>>, LAMBDA w :
      Bind(XAdd(t, w[1]), LAMBDA u :
        [y0 |-> y0, y1 |-> Round(u.s, u.m, u.e), n |-> n])))

LargeReduce(m, x) ==
  Bind(FastN(m, x), LAMBDA nr :
    Bind(LargeProducts(m, nr.Nf), LAMBDA p :
      Bind(LargeSum(x, p), LAMBDA t : LargeSplit(t, nr.N))))

libm_sincos_huge(m, x) ==
  Bind(LargeReduce(m, x), LAMBDA lr :
    Bind(Evaluator(m, EntryOffset(lr.n), lr.y0, lr.y0, Neg(lr.y1)), LAMBDA e :
      FinalSum(e).res))

(***************************************************************************)
(* Arguments the callers pass, as bit patterns of |x|; every one is passed *)
(* with either sign.                                                       *)
(***************************************************************************)
TinyArgs ==
  { <<0, 0, 0, 0>>,                    \* 0
    <<1, 0, 0, 0>>,                    \* least subnormal
    <<65535, 65535, 65535, 15>>,       \* greatest subnormal
    <<0, 0, 0, 16>>,                   \* least normal
    <<0, 0, 0, 8192>>,                 \* 2^-511
    <<65535, 65535, 65535, 12335>> }   \* greatest double below 2^-252

FastArgs ==
  { <<0, 0, 0, 12336>>,                \* 2^-252
    <<1, 0, 0, 12336>>,
    <<13725, 7567, 5609, 12646>>,      \* 1e-70
    <<0, 0, 0, 15952>>,                \* 2^-26
    <<11543, 21572, 8699, 16297>>,     \* x*(32/pi) rounds to 1/2 - 2^-54
    <<11544, 21572, 8699, 16297>>,     \* x*(32/pi) rounds to 1/2
    <<8658, 32563, 55676, 16322>>,     \* ... to 3/2
    <<14430, 10581, 27258, 16335>>,    \* ... to 5/2
    <<42869, 59835, 64955, 16341>>,    \* ... to 7/2
    <<0, 0, 0, 16352>>,                \* 0.5
    <<0, 0, 0, 16368>>,                \* 1
    <<48536, 61260, 32332, 16368>>,    \* x*(32/pi) rounds to 21/2
    <<11544, 21572, 8699, 16377>>,     \* pi/2
    <<0, 0, 0, 16384>>,                \* 2
    <<0, 0, 0, 16392>>,                \* 3
    <<11544, 21572, 8699, 16393>>,     \* pi
    <<15820, 16789, 34435, 16393>>,    \* x*(32/pi) rounds to 65/2
    <<11544, 21572, 8699, 16409>>,     \* 2 pi
    <<0, 0, 0, 16420>>,                \* 10
    <<0, 0, 0, 16473>>,                \* 100
    <<7311, 44981, 36435, 16472>>,     \* x*(32/pi) rounds to 2001/2
    <<0, 0, 16384, 16527>>,            \* 1000
    <<0, 0, 0, 16624>>,                \* 65536
    <<0, 0, 0, 16629>>,                \* 86016
    <<65535, 65535, 65535, 16629>> }   \* greatest double below 90112

HugeArgs ==
  { <<0, 0, 0, 16630>>,                \* 90112
    <<1, 0, 0, 16630>>,
    <<0, 0, 27136, 16632>>,            \* 100000
    <<0, 0, 0, 16640>>,                \* 2^17
    <<0, 0, 33920, 16686>>,            \* 1000000
    <<0, 0, 0, 16688>>,                \* 2^20
    <<65535, 65535, 65535, 16783>> }   \* greatest double below 2^26

NonFiniteArgs ==
  { <<0, 0, 0, 32752>>,                \* infinity
    <<0, 0, 0, 32760>>,                \* quiet NaN
    <<65535, 65535, 65535, 32767>>,    \* quiet NaN, full payload
    <<1, 0, 0, 32752>>,                \* signaling NaN
    <<0, 0, 0, 32756>> }               \* signaling NaN

Magnitudes == TinyArgs \cup FastArgs \cup HugeArgs \cup NonFiniteArgs
Inputs == Magnitudes \cup {Neg(d) : d \in Magnitudes}

\* the arguments of the two concurrent callers
ConcInputs ==
  { <<0, 0, 0, 32768>>, <<0, 0, 0, 16368>>, <<11544, 21572, 8699, 49145>>,
    <<0, 0, 0, 16630>>, <<0, 0, 0, 65520>> }

MaxCalls == 2
Threads == {1, 2}

(***************************************************************************)
(* State.  Every variable but mem is per thread.                           *)
(*   pc    where the call is                                               *)
(*   arg   the argument x, at 128(%esp)                                    *)
(*   gpr   %eax, %edx, %ebx                                                *)
(*   nred  y, y +- 0.5, N and N as a double                                *)
(*   red   the reduction's m_1 .. -c                                       *)
(*   ev    the evaluator's values                                          *)
(*   fin   res_lo and the value about to be returned (%xmm4 or %xmm1)      *)
(*   st0   the x87 register the result is returned in                      *)
(*   fpsw  exception flags raised by this call                             *)
(*   path  the components this call has run, in order                      *)
(*   calls how many calls the thread has made; last: the call before       *)
(***************************************************************************)
VARIABLES pc, arg, gpr, nred, red, ev, fin, mem, st0, fpsw, path, calls, last

(***************************************************************************)
(* State of __rem_pio2_fast (one call at a time).                          *)
(*   rpc     where the call is                                             *)
(*   rarg    the argument as passed in d0 and r0, r1                       *)
(*   reg     r0 .. r3                                                      *)
(*   vfp     d0, d2 .. d6, d16 .. d18                                      *)
(*   rounds  the value of ti compared at the end of each round run         *)
(*   large   how many times __rem_pio2_large has been called               *)
(***************************************************************************)
VARIABLES rpc, rarg, reg, vfp, rounds, large

remvars == <<rpc, rarg, reg, vfp, rounds, large>>

(***************************************************************************)
(* State of one LinkedList<T, Allocator> and of its allocator.             *)
(*   head_, tail_  the two members; 0 is nullptr                           *)
(*   heap    next and element of every LinkedListEntry the allocator owns  *)
(*   live    the entries obtained from alloc and not yet passed to free    *)
(*   lpc     the member function running and its local variables           *)
(*   log     what the callers have observed                                *)
(***************************************************************************)
VARIABLES head_, tail_, heap, live, lpc, log

listvars == <<head_, tail_, heap, live, lpc, log>>

cosvars == <<pc, arg, gpr, nred, red, ev, fin, mem, st0, fpsw, path, calls, last>>

vars == <<pc, arg, gpr, nred, red, ev, fin, mem, st0, fpsw, path, calls, last,
          rpc, rarg, reg, vfp, rounds, large,
          head_, tail_, heap, live, lpc, log>>

Z == Zero(0)
BlankGpr == [eax |-> 0, edx |-> 0, ebx |-> "caller"]
BlankN == [y |-> Z, s |-> Z, N |-> 0, Nf |-> Z]
BlankRed == [m1 |-> Z, m2 |-> Z, m3 |-> Z, r1 |-> Z, r |-> Z,
             c1 |-> Z, c2 |-> Z, negc |-> Z]
BlankEv == [C_hl |-> Z, S_hi |-> Z, S_lo |-> Z, sigma |-> Z,
            negd |-> Z, rs |-> Z, med |-> Z, res_int |-> Z, res_hi |-> Z,
            k0 |-> Z, k1 |-> Z, k2 |-> Z, k3 |-> Z,
            corr |-> Z, pols_lo |-> Z, pols_hi |-> Z]
BlankFin == [res_lo |-> Z, res |-> Z]
NoLast == [valid |-> FALSE, x |-> Z, res |-> Z]

\* before any call of __rem_pio2_fast
BlankReg == [r0 |-> 0, r1 |-> 0, r2 |-> 0, r3 |-> 0]
BlankVfp == [d0 |-> Z, d2 |-> Z, d3 |-> Z, d4 |-> Z, d5 |-> Z, d6 |-> Z,
             d16 |-> Z, d17 |-> Z, d18 |-> Z]

RemInit ==
  /\ rpc = "idle"
  /\ rarg = Z
  /\ reg = BlankReg
  /\ vfp = BlankVfp
  /\ rounds = <<>>
  /\ large = 0

\* the entries the allocator can hand out, and the objects callers store
MaxEntries == 3
Entries == 1..MaxEntries
nullptr == 0
Elements == {1, 2}

IdleList == [op |-> "idle", e |-> nullptr, seen |-> <<>>, pred |-> {}]
NoOp == [op |-> "none", arg |-> nullptr, pred |-> {}, ret |-> nullptr, seen |-> <<>>]

\* last: the call made last, with what it returned and what its callback saw;
\* slots, chain, alive: the elements, the entries and the allocated entries
\* when that call began; order, how: the allocated entries by age, and the
\* push that made each; double_free, wild: an entry was freed twice, or an
\* entry not allocated was read or written
NoLog ==
  [last |-> NoOp, slots |-> <<>>, chain |-> <<>>, alive |-> {},
   order |-> <<>>, how |-> [a \in Entries |-> "none"],
   double_free |-> FALSE, wild |-> FALSE]

\* LinkedList() : head_(nullptr), tail_(nullptr) {}
ListInit ==
  /\ head_ = nullptr
  /\ tail_ = nullptr
  /\ heap = [a \in Entries |-> [next |-> nullptr, element |-> nullptr]]
  /\ live = {}
  /\ lpc = IdleList
  /\ log = NoLog

Init ==
  /\ pc = [t \in Threads |-> "idle"]
  /\ arg = [t \in Threads |-> Z]
  /\ gpr = [t \in Threads |-> BlankGpr]
  /\ nred = [t \in Threads |-> BlankN]
  /\ red = [t \in Threads |-> BlankRed]
  /\ ev = [t \in Threads |-> BlankEv]
  /\ fin = [t \in Threads |-> BlankFin]
  /\ mem = NoWrites
  /\ st0 = [t \in Threads |-> Z]
  /\ fpsw = [t \in Threads |-> {}]
  /\ path = [t \in Threads |-> <<>>]
  /\ calls = [t \in Threads |-> 0]
  /\ last = [t \in Threads |-> NoLast]
  /\ RemInit
  /\ ListInit

\* a caller passes v
Call(t, v) ==
  /\ pc[t] = "idle"
  /\ pc' = [pc EXCEPT ![t] = "entry"]
  /\ arg' = [arg EXCEPT ![t] = v]
  /\ calls' = [calls EXCEPT ![t] = 1]
  /\ UNCHANGED <<gpr, nred, red, ev, fin, mem, st0, fpsw, path, last>>
  /\ UNCHANGED <<remvars, listvars>>

\* the caller keeps the result, clears the flags and calls again with -x
Mirror(t) ==
  /\ pc[t] = "done"
  /\ calls[t] < MaxCalls
  /\ last' = [last EXCEPT ![t] = [valid |-> TRUE, x |-> arg[t], res |-> st0[t]]]
  /\ arg' = [arg EXCEPT ![t] = Neg(arg[t])]
  /\ calls' = [calls EXCEPT ![t] = calls[t] + 1]
  /\ pc' = [pc EXCEPT ![t] = "entry"]
  /\ gpr' = [gpr EXCEPT ![t] = BlankGpr]
  /\ nred' = [nred EXCEPT ![t] = BlankN]
  /\ red' = [red EXCEPT ![t] = BlankRed]
  /\ ev' = [ev EXCEPT ![t] = BlankEv]
  /\ fin' = [fin EXCEPT ![t] = BlankFin]
  /\ st0' = [st0 EXCEPT ![t] = Z]
  /\ fpsw' = [fpsw EXCEPT ![t] = {}]
  /\ path' = [path EXCEPT ![t] = <<>>]
  /\ UNCHANGED mem
  /\ UNCHANGED <<remvars, listvars>>

\* ..B2.2 up to the branch taken: save %ebx, test the exponent
Dispatch(t) ==
  /\ pc[t] = "entry"
  /\ mem' = Write(mem, StackAddr(t, 56), gpr[t].ebx)
  /\ gpr' = [gpr EXCEPT ![t] = [eax |-> HighWord(arg[t]) - TinyBound,
                                edx |-> 0, ebx |-> "table"]]
  /\ pc' = [pc EXCEPT ![t] = Branch(arg[t])]
  /\ UNCHANGED <<arg, nred, red, ev, fin, st0, fpsw, path, calls, last>>
  /\ UNCHANGED <<remvars, listvars>>

Reduce_N(t) ==
  /\ pc[t] = "fast"
  /\ nred' = [nred EXCEPT ![t] = FastN(mem, arg[t])]
  /\ gpr' = [gpr EXCEPT ![t].edx = nred'[t].N]
  /\ path' = [path EXCEPT ![t] = Append(path[t], "fast_reducer")]
  /\ pc' = [pc EXCEPT ![t] = "index"]
  /\ UNCHANGED <<arg, red, ev, fin, mem, st0, fpsw, calls, last>>
  /\ UNCHANGED <<remvars, listvars>>

Reduce_Index(t) ==
  /\ pc[t] = "index"
  /\ gpr' = [gpr EXCEPT ![t].eax = EntryOffset(gpr[t].edx),
                        ![t].edx = EntryOffset(gpr[t].edx)]
  /\ pc' = [pc EXCEPT ![t] = "reduce"]
  /\ UNCHANGED <<arg, nred, red, ev, fin, mem, st0, fpsw, path, calls, last>>
  /\ UNCHANGED <<remvars, listvars>>

Reduce_R(t) ==
  /\ pc[t] = "reduce"
  /\ red' = [red EXCEPT ![t] = FastReduce(mem, arg[t], nred[t].Nf)]
  /\ pc' = [pc EXCEPT ![t] = "eval"]
  /\ UNCHANGED <<arg, gpr, nred, ev, fin, mem, st0, fpsw, path, calls, last>>
  /\ UNCHANGED <<remvars, listvars>>

Evaluate(t) ==
  /\ pc[t] = "eval"
  /\ ev' = [ev EXCEPT ![t] = Evaluator(mem, gpr[t].eax, red[t].r1, red[t].r,
                                       red[t].negc)]
  /\ path' = [path EXCEPT ![t] = Append(path[t], "evaluator")]
  /\ pc' = [pc EXCEPT ![t] = "sum"]
  /\ UNCHANGED <<arg, gpr, nred, red, fin, mem, st0, fpsw, calls, last>>
  /\ UNCHANGED <<remvars, listvars>>

Summation(t) ==
  /\ pc[t] = "sum"
  /\ fin' = [fin EXCEPT ![t] = FinalSum(ev[t])]
  /\ pc' = [pc EXCEPT ![t] = "spill"]
  /\ UNCHANGED <<arg, gpr, nred, red, ev, mem, st0, fpsw, path, calls, last>>
  /\ UNCHANGED <<remvars, listvars>>

\* .L_2TAG_PACKET_0.0.2
Tiny(t) ==
  /\ pc[t] = "tiny"
  /\ fin' = [fin EXCEPT ![t] = [res_lo |-> Z, res |-> TinyResult(mem, arg[t])]]
  /\ gpr' = [gpr EXCEPT ![t].eax = HighWord(arg[t])]
  /\ path' = [path EXCEPT ![t] = Append(path[t], "tiny")]
  /\ pc' = [pc EXCEPT ![t] = "spill"]
  /\ UNCHANGED <<arg, nred, red, ev, mem, st0, fpsw, calls, last>>
  /\ UNCHANGED <<remvars, listvars>>

SpillAddr_Static(t) == StaticAddr(2200)

\* movsd %xmm4, (%esp)  (movsd %xmm1, (%esp) on the small-argument branch)
SpillAddr(t) == StackAddr(t, 0)

Spill(t) ==
  /\ pc[t] = "spill"
  /\ mem' = Write(mem, SpillAddr(t), fin[t].res)
  /\ pc' = [pc EXCEPT ![t] = "fld"]
  /\ UNCHANGED <<arg, gpr, nred, red, ev, fin, st0, fpsw, path, calls, last>>
  /\ UNCHANGED <<remvars, listvars>>

\* fldl (%esp)
Fld(t) ==
  /\ pc[t] = "fld"
  /\ st0' = [st0 EXCEPT ![t] = Read(mem, SpillAddr(t))]
  /\ pc' = [pc EXCEPT ![t] = "ret"]
  /\ UNCHANGED <<arg, gpr, nred, red, ev, fin, mem, fpsw, path, calls, last>>
  /\ UNCHANGED <<remvars, listvars>>

\* .L_2TAG_PACKET_2.0.2 for a finite x: the three argument stores below the
\* frame, the call, and the store the callee makes through the pointer
HugeCall(t) ==
  /\ pc[t] = "huge"
  /\ mem' = Bind(Write(Write(Write(mem, StackAddr(t, -32), arg[t]),
                                    StackAddr(t, -24), StackAddr(t, 8)),
                              StackAddr(t, -20), 1),
                  LAMBDA m3 :
                    Write(m3, Read(m3, StackAddr(t, -24)),
                          libm_sincos_huge(m3, Read(m3, StackAddr(t, -32)))))
  /\ gpr' = [gpr EXCEPT ![t].eax = 1]
  /\ path' = [path EXCEPT ![t] = Append(path[t], "libm_sincos_huge")]
  /\ pc' = [pc EXCEPT ![t] = "huge_ret"]
  /\ UNCHANGED <<arg, nred, red, ev, fin, st0, fpsw, calls, last>>
  /\ UNCHANGED <<remvars, listvars>>

HugeRet_Frame0(t) ==
  /\ pc[t] = "huge_ret"
  /\ st0' = [st0 EXCEPT ![t] = Read(mem, StackAddr(t, 0))]
  /\ pc' = [pc EXCEPT ![t] = "ret"]
  /\ UNCHANGED <<arg, gpr, nred, red, ev, fin, mem, fpsw, path, calls, last>>
  /\ UNCHANGED <<remvars, listvars>>

\* fldl 8(%esp)
HugeRet(t) ==
  /\ pc[t] = "huge_ret"
  /\ st0' = [st0 EXCEPT ![t] = Read(mem, StackAddr(t, 8))]
  /\ pc' = [pc EXCEPT ![t] = "ret"]
  /\ UNCHANGED <<arg, gpr, nred, red, ev, fin, mem, fpsw, path, calls, last>>
  /\ UNCHANGED <<remvars, listvars>>

\* .L_2TAG_PACKET_3.0.2
Special(t) ==
  /\ pc[t] = "special"
  /\ LET sr == SpecialResult(mem, arg[t])
     IN /\ st0' = [st0 EXCEPT ![t] = sr.v]
        /\ fpsw' = [fpsw EXCEPT ![t] = IF sr.ie THEN fpsw[t] \cup {"IE"}
                                       ELSE fpsw[t]]
  /\ path' = [path EXCEPT ![t] = Append(path[t], "special")]
  /\ pc' = [pc EXCEPT ![t] = "ret"]
  /\ UNCHANGED <<arg, gpr, nred, red, ev, fin, mem, calls, last>>
  /\ UNCHANGED <<remvars, listvars>>

\* .L_2TAG_PACKET_1.0.2
Ret(t) ==
  /\ pc[t] = "ret"
  /\ gpr' = [gpr EXCEPT ![t].ebx = Read(mem, StackAddr(t, 56))]
  /\ pc' = [pc EXCEPT ![t] = "done"]
  /\ UNCHANGED <<arg, nred, red, ev, fin, mem, st0, fpsw, path, calls, last>>
  /\ UNCHANGED <<remvars, listvars>>

Step(t) ==
  \/ Dispatch(t)
  \/ Reduce_N(t)
  \/ Reduce_Index(t)
  \/ Reduce_R(t)
  \/ Evaluate(t)
  \/ Summation(t)
  \/ Tiny(t)
  \/ Spill(t)
  \/ Fld(t)
  \/ HugeCall(t)
  \/ HugeRet(t)
  \/ Special(t)
  \/ Ret(t)

\* one caller: cos(x), then cos(-x)
Next ==
  \/ \E v \in Inputs : Call(1, v)
  \/ Mirror(1)
  \/ Step(1)

Spec == Init /\ [][Next]_vars

\* two callers on two threads, any interleaving
NextConc ==
  \E t \in Threads :
    \/ \E v \in ConcInputs : Call(t, v)
    \/ Step(t)

SpecConc == Init /\ [][NextConc]_vars

(***************************************************************************)
(* __rem_pio2_fast (ARM, VFPv4): x in d0 and r0, r1; y0, y1 returned in    *)
(* d2, d3 and n in r0.  The literal pool:                                  *)
(***************************************************************************)
Linvpio2 == <<51331, 28105, 24368, 16356>>  \* 6.36619772367581382433e-01
Lmagic == <<0, 0, 0, 17208>>  \* 0x1.8p52
Lpio2_1 == <<0, 21568, 8699, 16377>>  \* 1.57079632673412561417e+00
Lpio2_1t == <<25393, 6754, 46177, 15824>>  \* 6.07710050650619224932e-11
Lpio2_2 == <<0, 6752, 46177, 15824>>  \* 6.07710050630396597660e-11
Lpio2_2t == <<28787, 11779, 6538, 15267>>  \* 2.02226624879595063154e-21
Lpio2_3 == <<0, 11776, 6538, 15267>>  \* 2.02226624871116645580e-21
Lpio2_3t == <<18881, 9504, 33690, 14715>>  \* 8.47842766036889956997e-32

\* movw ip, #0x21fb ; movt ip, #0x4139
MediumBound == 1094263291
\* cmp ti, #0x10 and cmp ti, #0x31
Round2Gap == 16
Round3Gap == 49

\* the two 32-bit halves of a double as a core register holds them
\* (two's complement), and the high half with bit 31 cleared
LowWord(d) == IF d[2] >= 32768 THEN (d[2] - 65536) * 65536 + d[1]
              ELSE d[2] * 65536 + d[1]
HighWordOf(d) == IF d[4] >= 32768 THEN (d[4] - 65536) * 65536 + d[3]
                 ELSE d[4] * 65536 + d[3]
\* bic rd, rn, #0x80000000
Bic31(r) == IF r < 0 THEN r + 2147483647 + 1 ELSE r
\* asr #20 of a register that is not negative
Asr20(r) == r \div 1048576

\* vfma.f64: acc + a * b with a single rounding
Vfma(acc, a, b) ==
  IF ExpOf(acc) = 2047 \/ ExpOf(a) = 2047 \/ ExpOf(b) = 2047
    THEN FAdd(acc, FMul(a, b))
    ELSE Bind(<<XMul(Unpack(a), Unpack(b))>>, LAMBDA p :
           Bind(XAdd(Unpack(acc), p[1]), LAMBDA t :
             IF BIsZero(t.m)
               THEN (IF p[1].s = SignOf(acc) /\ IsZero(acc) THEN Zero(p[1].s)
                     ELSE Zero(0))
               ELSE Round(t.s, t.m, t.e)))

\* vfms.f64: acc - a * b with a single rounding
Vfms(acc, a, b) == Vfma(acc, Neg(a), b)

\* vcvt.s32.f64: toward zero, saturating, 0 for a NaN
Vcvt_s32_f64(d) ==
  IF IsNaN(d) THEN 0
  ELSE IF Cvttsd2si(d) = -2147483647 - 1
    THEN (IF SignOf(d) = 1 THEN -2147483647 - 1 ELSE 2147483647)
  ELSE Cvttsd2si(d)

\* what __rem_pio2_large, which is not part of this routine, may hand back
LargeResults ==
  {[n |-> 0, y0 |-> Z, y1 |-> Z],
   [n |-> 3, y0 |-> <<0, 0, 0, 16352>>, y1 |-> <<0, 0, 0, 15456>>]}

\* arguments, as |x|; each is passed with either sign
RemMagnitudes ==
  { <<0, 0, 0, 0>>,                    \* 0
    <<0, 0, 0, 15888>>,                \* 2^-30
    <<0, 0, 0, 16352>>,                \* 0.5
    <<0, 0, 0, 16368>>,                \* 1
    <<0, 0, 0, 16384>>,                \* 2
    <<0, 0, 0, 16392>>,                \* 3
    <<0, 0, 0, 16473>>,                \* 100
    <<0, 0, 12288, 16502>>,            \* 355
    <<0, 0, 33920, 16686>>,            \* 1000000
    <<11544, 21572, 8699, 16377>>,     \* pi/2
    <<11545, 21572, 8699, 16377>>,     \* next double after pi/2
    <<11544, 21636, 8699, 16377>>,     \* pi/2 + 2^-30
    <<11544, 21572, 8699, 16393>>,     \* pi
    <<13592, 21572, 8699, 16393>>,     \* pi + 2^-40
    <<8658, 32563, 55676, 16402>>,     \* 3 pi/2
    <<11544, 17476, 8699, 16409>>,     \* 2 pi - 2^-22
    <<11544, 21572, 8699, 16409>>,     \* 2 pi
    <<11544, 21572, 8699, 16681>>,     \* 2^19 pi/2
    <<41471, 9772, 44123, 16694>>,
    <<0, 0, 8699, 16697>>,             \* high word 0x413921fb, low word 0
    <<65535, 65535, 8699, 16697>>,     \* high word 0x413921fb, low word all ones
    <<0, 0, 8700, 16697>>,             \* high word 0x413921fc
    <<0, 0, 4816, 16739>>,             \* 10000000
    <<0, 0, 0, 32752>>,                \* infinity
    <<0, 0, 0, 32760>> }               \* NaN

RemInputs == RemMagnitudes \cup {Neg(d) : d \in RemMagnitudes}

\* the literal pools loaded by the three rounds
Pool(k) ==
  IF k = 1 THEN [hi |-> Lpio2_1, lo |-> Lpio2_1t]
  ELSE IF k = 2 THEN [hi |-> Lpio2_2, lo |-> Lpio2_2t]
  ELSE [hi |-> Lpio2_3, lo |-> Lpio2_3t]

\* a caller passes v in d0 and in r0, r1
RemCall(v) ==
  /\ rpc \in {"idle", "ret"}
  /\ rpc' = "entry"
  /\ rarg' = v
  /\ reg' = [BlankReg EXCEPT !.r0 = LowWord(v), !.r1 = HighWordOf(v)]
  /\ vfp' = [BlankVfp EXCEPT !.d0 = v]
  /\ rounds' = <<>>
  /\ large' = 0
  /\ UNCHANGED <<cosvars, listvars>>

\* bic abs_ixh ; cmp abs_ixh, ip ; ble __medium
RemEntry ==
  /\ rpc = "entry"
  /\ reg' = [reg EXCEPT !.r2 = Bic31(reg.r1)]
  /\ rpc' = IF reg'.r2 <= MediumBound THEN "medium" ELSE "large"
  /\ UNCHANGED <<rarg, vfp, rounds, large, cosvars, listvars>>

\* __large: the call of __rem_pio2_large and the load of what it stored
RemLarge ==
  /\ rpc = "large"
  /\ \E res \in LargeResults :
       /\ reg' = [reg EXCEPT !.r0 = res.n]
       /\ vfp' = [vfp EXCEPT !.d2 = res.y0, !.d3 = res.y1]
  /\ large' = large + 1
  /\ rpc' = "ret"
  /\ UNCHANGED <<rarg, rounds, cosvars, listvars>>

\* fn, x - fn * pio2_1 and w of __medium
MediumValues(x) ==
  Bind(Vfma(Lmagic, x, Linvpio2), LAMBDA s :
    Bind(FSub(s, Lmagic), LAMBDA fn :
      [fn |-> fn, n |-> Vcvt_s32_f64(fn),
       x |-> Vfms(x, fn, Lpio2_1), w |-> FMul(fn, Lpio2_1t)]))

\* __medium
RemMedium ==
  /\ rpc = "medium"
  /\ LET v == MediumValues(vfp.d0)
     IN /\ vfp' = [vfp EXCEPT !.d16 = Linvpio2, !.d17 = v.fn, !.d4 = Lpio2_1,
                              !.d5 = Lpio2_1t, !.d0 = v.x, !.d18 = v.w]
        /\ reg' = [reg EXCEPT !.r3 = Asr20(reg.r2), !.r0 = v.n]
  /\ rpc' = "round1"
  /\ UNCHANGED <<rarg, rounds, large, cosvars, listvars>>

Gap_Signed(j, y0) == j - (HighWordOf(y0) \div 1048576)

\* ti = j - (abs(high word of y0) >> 20)
Gap(j, y0) == j - Asr20(Bic31(HighWordOf(y0)))

\* __1st_round
Rem1stRound ==
  /\ rpc = "round1"
  /\ vfp' = [vfp EXCEPT !.d2 = FSub(vfp.d0, vfp.d18)]
  /\ reg' = [reg EXCEPT !.r1 = Bic31(HighWordOf(vfp'.d2)),
                        !.r2 = Gap(reg.r3, vfp'.d2)]
  /\ rounds' = Append(rounds, vfp'.d2)
  /\ rpc' = IF reg'.r2 > Round2Gap THEN "round2" ELSE "done"
  /\ UNCHANGED <<rarg, large, cosvars, listvars>>

\* t2 = x ; t0 = fn * pio2_k ; t1 = fn * pio2_kt ; x -= t0 ;
\* w = t1 - ((t2 - x) - t0) ; y0 = x - w
LaterRound(v, k) ==
  Bind([t0 |-> FMul(v.d17, Pool(k).hi), t1 |-> FMul(v.d17, Pool(k).lo)], LAMBDA p :
    Bind(FSub(v.d0, p.t0), LAMBDA x :
      Bind(FSub(FSub(v.d0, x), p.t0), LAMBDA t2 :
        Bind(FSub(p.t1, t2), LAMBDA w :
          [v EXCEPT !.d4 = p.t0, !.d5 = p.t1, !.d0 = x, !.d6 = t2,
                    !.d18 = w, !.d2 = FSub(x, w)]))))

\* __2nd_round
Rem2ndRound ==
  /\ rpc = "round2"
  /\ vfp' = LaterRound(vfp, 2)
  /\ reg' = [reg EXCEPT !.r1 = Bic31(HighWordOf(vfp'.d2)),
                        !.r2 = Gap(reg.r3, vfp'.d2)]
  /\ rounds' = Append(rounds, vfp'.d2)
  /\ rpc' = IF reg'.r2 > Round3Gap THEN "round3" ELSE "done"
  /\ UNCHANGED <<rarg, large, cosvars, listvars>>

\* __3rd_round
Rem3rdRound ==
  /\ rpc = "round3"
  /\ vfp' = LaterRound(vfp, 3)
  /\ rounds' = Append(rounds, vfp'.d2)
  /\ rpc' = "done"
  /\ UNCHANGED <<rarg, reg, large, cosvars, listvars>>

\* __done: y1 = (x - y0) - w ; bx lr
RemDone ==
  /\ rpc = "done"
  /\ vfp' = [vfp EXCEPT !.d3 = FSub(FSub(vfp.d0, vfp.d2), vfp.d18)]
  /\ rpc' = "ret"
  /\ UNCHANGED <<rarg, reg, rounds, large, cosvars, listvars>>

NextRem ==
  \/ \E v \in RemInputs : RemCall(v)
  \/ RemEntry
  \/ RemLarge
  \/ RemMedium
  \/ Rem1stRound
  \/ Rem2ndRound
  \/ Rem3rdRound
  \/ RemDone

SpecRem == Init /\ [][NextRem]_vars

(***************************************************************************)
(* LinkedList<T, Allocator>.  Allocator::alloc hands out any entry that is *)
(* not allocated, its contents being whatever was left there;              *)
(* Allocator::free takes the entry back and overwrites it.  The callbacks  *)
(* given to for_each and remove_if do not touch the list.                  *)
(***************************************************************************)
\* the entries met by following next from a, at most n of them
RECURSIVE ChainFrom(_, _, _)
ChainFrom(h, a, n) ==
  IF a = nullptr \/ n = 0 THEN <<>>
  ELSE <<a>> \o ChainFrom(h, h[a].next, n - 1)

Chain == ChainFrom(heap, head_, MaxEntries + 1)
Slots == [i \in 1..Len(Chain) |-> heap[Chain[i]].element]

\* a sequence without its entries equal to a
Without(s, a) == SelectSeq(s, LAMBDA b : b # a)

\* what the callers pass: an object or nullptr, and a predicate over objects
Pushable == Elements \cup {nullptr}
Predicates == {{}, {1}, {1, 2}}

\* the entry as Allocator::free leaves it
Freed(h, a) == [h EXCEPT ![a] = [next |-> a, element |-> nullptr]]

\* the record of a call that begins now
Began(what, element, predicate) ==
  [log EXCEPT !.last = [NoOp EXCEPT !.op = what, !.arg = element,
                                    !.pred = predicate],
              !.slots = Slots, !.chain = Chain, !.alive = live]

push_front_NoLink(element) ==
  /\ lpc.op = "idle"
  /\ \E new_entry \in Entries \ live :
       /\ heap' = [heap EXCEPT ![new_entry] = [next |-> nullptr, element |-> element]]
       /\ head_' = new_entry
       /\ tail_' = IF tail_ = nullptr THEN new_entry ELSE tail_
       /\ live' = live \cup {new_entry}
       /\ log' = [Began("push_front", element, {}) EXCEPT
                    !.order = Append(log.order, new_entry),
                    !.how[new_entry] = "front"]
  /\ UNCHANGED <<lpc, cosvars, remvars>>

push_front(element) ==
  /\ lpc.op = "idle"
  /\ \E new_entry \in Entries \ live :
       /\ heap' = [heap EXCEPT ![new_entry] = [next |-> head_, element |-> element]]
       /\ head_' = new_entry
       /\ tail_' = IF tail_ = nullptr THEN new_entry ELSE tail_
       /\ live' = live \cup {new_entry}
       /\ log' = [Began("push_front", element, {}) EXCEPT
                    !.order = Append(log.order, new_entry),
                    !.how[new_entry] = "front"]
  /\ UNCHANGED <<lpc, cosvars, remvars>>

push_back(element) ==
  /\ lpc.op = "idle"
  /\ \E new_entry \in Entries \ live :
       /\ IF tail_ = nullptr
            THEN /\ heap' = [heap EXCEPT ![new_entry] =
                                [next |-> nullptr, element |-> element]]
                 /\ head_' = new_entry
            ELSE /\ heap' = [heap EXCEPT ![new_entry] =
                                [next |-> nullptr, element |-> element],
                              ![tail_].next = new_entry]
                 /\ head_' = head_
       /\ tail_' = new_entry
       /\ live' = live \cup {new_entry}
       /\ log' = [Began("push_back", element, {}) EXCEPT
                    !.order = Append(log.order, new_entry),
                    !.how[new_entry] = "back",
                    !.wild = log.wild \/ (tail_ # nullptr /\ tail_ \notin live)]
  /\ UNCHANGED <<lpc, cosvars, remvars>>

pop_front_KeepTail ==
  /\ lpc.op = "idle"
  /\ IF head_ = nullptr
       THEN /\ log' = Began("pop_front", nullptr, {})
            /\ UNCHANGED <<head_, tail_, heap, live>>
       ELSE /\ head_' = heap[head_].next
            /\ tail_' = tail_
            /\ heap' = Freed(heap, head_)
            /\ live' = live \ {head_}
            /\ log' = [Began("pop_front", nullptr, {}) EXCEPT
                         !.last.ret = heap[head_].element,
                         !.order = Without(log.order, head_),
                         !.how[head_] = "none",
                         !.double_free = log.double_free \/ head_ \notin live,
                         !.wild = log.wild \/ head_ \notin live]
  /\ UNCHANGED <<lpc, cosvars, remvars>>

pop_front ==
  /\ lpc.op = "idle"
  /\ IF head_ = nullptr
       THEN /\ log' = Began("pop_front", nullptr, {})
            /\ UNCHANGED <<head_, tail_, heap, live>>
       ELSE /\ head_' = heap[head_].next
            /\ tail_' = IF heap[head_].next = nullptr THEN nullptr ELSE tail_
            /\ heap' = Freed(heap, head_)
            /\ live' = live \ {head_}
            /\ log' = [Began("pop_front", nullptr, {}) EXCEPT
                         !.last.ret = heap[head_].element,
                         !.order = Without(log.order, head_),
                         !.how[head_] = "none",
                         !.double_free = log.double_free \/ head_ \notin live,
                         !.wild = log.wild \/ head_ \notin live]
  /\ UNCHANGED <<lpc, cosvars, remvars>>

\* clear() is entered
clear ==
  /\ lpc.op = "idle"
  /\ lpc' = [IdleList EXCEPT !.op = "clear"]
  /\ log' = Began("clear", nullptr, {})
  /\ UNCHANGED <<head_, tail_, heap, live, cosvars, remvars>>

clear_loop_Leak ==
  /\ lpc.op = "clear"
  /\ head_ # nullptr
  /\ head_' = heap[head_].next
  /\ log' = [log EXCEPT !.wild = log.wild \/ head_ \notin live]
  /\ UNCHANGED <<tail_, heap, live, lpc, cosvars, remvars>>

\* one turn of the loop: p = head_ ; head_ = head_->next ; free(p)
clear_loop ==
  /\ lpc.op = "clear"
  /\ head_ # nullptr
  /\ head_' = heap[head_].next
  /\ heap' = Freed(heap, head_)
  /\ live' = live \ {head_}
  /\ log' = [log EXCEPT !.order = Without(log.order, head_),
                        !.how[head_] = "none",
                        !.double_free = log.double_free \/ head_ \notin live,
                        !.wild = log.wild \/ head_ \notin live]
  /\ UNCHANGED <<tail_, lpc, cosvars, remvars>>

\* the loop is left: tail_ = nullptr
clear_exit ==
  /\ lpc.op = "clear"
  /\ head_ = nullptr
  /\ tail_' = nullptr
  /\ lpc' = IdleList
  /\ UNCHANGED <<head_, heap, live, log, cosvars, remvars>>

\* for_each(action) is entered: e = head_
for_each ==
  /\ lpc.op = "idle"
  /\ lpc' = [IdleList EXCEPT !.op = "for_each", !.e = head_]
  /\ log' = Began("for_each", nullptr, {})
  /\ UNCHANGED <<head_, tail_, heap, live, cosvars, remvars>>

\* one turn: if (e->element != nullptr) action(e->element) ; e = e->next
for_each_loop ==
  /\ lpc.op = "for_each"
  /\ lpc.e # nullptr
  /\ lpc' = [lpc EXCEPT !.e = heap[lpc.e].next,
                        !.seen = IF heap[lpc.e].element # nullptr
                                   THEN Append(lpc.seen, heap[lpc.e].element)
                                   ELSE lpc.seen]
  /\ log' = [log EXCEPT !.wild = log.wild \/ lpc.e \notin live]
  /\ UNCHANGED <<head_, tail_, heap, live, cosvars, remvars>>

for_each_exit ==
  /\ lpc.op = "for_each"
  /\ lpc.e = nullptr
  /\ lpc' = IdleList
  /\ log' = [log EXCEPT !.last.seen = lpc.seen]
  /\ UNCHANGED <<head_, tail_, heap, live, cosvars, remvars>>

\* remove_if(predicate) is entered: e = head_
remove_if(predicate) ==
  /\ lpc.op = "idle"
  /\ lpc' = [IdleList EXCEPT !.op = "remove_if", !.e = head_, !.pred = predicate]
  /\ log' = Began("remove_if", nullptr, predicate)
  /\ UNCHANGED <<head_, tail_, heap, live, cosvars, remvars>>

\* one turn: if (e->element != nullptr && predicate(e->element))
\* e->element = nullptr ; e = e->next
remove_if_loop ==
  /\ lpc.op = "remove_if"
  /\ lpc.e # nullptr
  /\ heap' = IF heap[lpc.e].element # nullptr /\ heap[lpc.e].element \in lpc.pred
               THEN [heap EXCEPT ![lpc.e].element = nullptr]
               ELSE heap
  /\ lpc' = [lpc EXCEPT !.e = heap[lpc.e].next]
  /\ log' = [log EXCEPT !.wild = log.wild \/ lpc.e \notin live]
  /\ UNCHANGED <<head_, tail_, live, cosvars, remvars>>

remove_if_exit ==
  /\ lpc.op = "remove_if"
  /\ lpc.e = nullptr
  /\ lpc' = IdleList
  /\ UNCHANGED <<head_, tail_, heap, live, log, cosvars, remvars>>

NextList ==
  \/ \E element \in Pushable : push_front(element)
  \/ \E element \in Pushable : push_back(element)
  \/ pop_front
  \/ clear
  \/ clear_loop
  \/ clear_exit
  \/ for_each
  \/ for_each_loop
  \/ for_each_exit
  \/ \E predicate \in Predicates : remove_if(predicate)
  \/ remove_if_loop
  \/ remove_if_exit

SpecList == Init /\ [][NextList]_vars

(***************************************************************************)
(* Properties.  They are stated over the registers, the memory and the     *)
(* record of what ran, with the double-precision constants written out.    *)
(***************************************************************************)
One == <<0, 0, 0, 16368>>
Half == <<0, 0, 0, 16352>>

\* bits 48..62 of x, read off the bit pattern
Bits48to62(x) == x[4] % 32768

Finished(t) == pc[t] = "done"

Ran(t, what) == \E i \in 1..Len(path[t]) : path[t][i] = what

\* a <= b and a < b for doubles that are not negative and not NaN
DLe(a, b) ==
  \/ a[4] < b[4]
  \/ a[4] = b[4] /\ a[3] < b[3]
  \/ a[4] = b[4] /\ a[3] = b[3] /\ a[2] < b[2]
  \/ a[4] = b[4] /\ a[3] = b[3] /\ a[2] = b[2] /\ a[1] <= b[1]

DLt(a, b) == DLe(a, b) /\ a # b

\* C1: for every x whose exponent field is all ones (NaN of either kind,
\* +Infinity, -Infinity) cos returns a NaN and raises invalid-operation.
C1_NonFiniteRaisesInvalid ==
  \A t \in Threads :
    Finished(t) /\ ExpOf(arg[t]) = 2047
      => IsNaN(st0[t]) /\ "IE" \in fpsw[t]

\* C2: for every x with biased exponent below 771 cos returns 1.0 - |x|,
\* by one subtraction on the sign-cleared x, with no reduction, no table
\* entry and no call of the large-argument routine; cos(+0) and cos(-0)
\* are exactly 1.0.
C2_TinyIsOneMinusAbs ==
  \A t \in Threads :
    Finished(t) /\ ExpOf(arg[t]) < 771
      => /\ st0[t] = FSub(One, Abs(arg[t]))
         /\ path[t] = <<"tiny">>
         /\ nred[t] = BlankN /\ red[t] = BlankRed /\ ev[t] = BlankEv
         /\ StackAddr(t, -32) \notin DOMAIN mem
         /\ (IsZero(arg[t]) => st0[t] = One)

C2_Witness ==
  /\ Finished(1)
  /\ arg[1] = <<65535, 65535, 65535, 32783>>
  /\ st0[1] = One
  /\ path[1] = <<"tiny">>

C4_OneBranchByMagnitude ==
  \A t \in Threads :
    Finished(t) =>
      /\ Bits48to62(arg[t]) < 12336 => path[t] = <<"tiny">>
      /\ Bits48to62(arg[t]) >= 12336 /\ Bits48to62(arg[t]) <= 16629
           => path[t] = <<"fast_reducer", "evaluator">>
      /\ Bits48to62(arg[t]) > 16629 /\ ExpOf(arg[t]) # 2047
           => path[t] = <<"libm_sincos_huge">>
      /\ ExpOf(arg[t]) = 2047 => path[t] = <<"special">>

C4_Witness ==
  /\ Finished(1)
  /\ arg[1] = <<65535, 65535, 65535, 16629>>
  /\ path[1] = <<"fast_reducer", "evaluator">>

\* C5: whenever the dispatcher has routed x to the fast reducer, the
\* integer N computed from x*(32/pi) has |N| <= 932560.
C5_FastNBounded ==
  \A t \in Threads :
    Ran(t, "fast_reducer")
      => nred[t].N <= 932560 /\ nred[t].N >= -932560

C5_Witness ==
  /\ pc[1] = "index"
  /\ Ran(1, "fast_reducer")
  /\ nred[1].N = 917873

\* C6 as stated: for a finite x with |x| >= 90112, cos obtains (y0, y1, n)
\* from the large-magnitude reducer and then runs its evaluator on them
\* before returning.
C6_EvaluatorAfterLargeReducer ==
  \A t \in Threads :
    Finished(t) /\ Bits48to62(arg[t]) > 16629 /\ ExpOf(arg[t]) # 2047
      => Ran(t, "evaluator") /\ ev[t] # BlankEv

\* C6, amended: for a finite x with |x| >= 90112, cos makes one call of
\* __libm_sincos_huge with x, the address of the double at 8(%esp) of its
\* frame and the integer 1, and returns the double found at that address;
\* neither its reducer nor its evaluator runs.
C6_HugeIsOneCall ==
  \A t \in Threads :
    Finished(t) /\ Bits48to62(arg[t]) > 16629 /\ ExpOf(arg[t]) # 2047
      => /\ path[t] = <<"libm_sincos_huge">>
         /\ nred[t] = BlankN /\ red[t] = BlankRed /\ ev[t] = BlankEv
         /\ StackAddr(t, 8) \in DOMAIN mem
         /\ mem[StackAddr(t, -32)] = arg[t]
         /\ mem[StackAddr(t, -24)] = StackAddr(t, 8)
         /\ mem[StackAddr(t, -20)] = 1
         /\ st0[t] = mem[StackAddr(t, 8)]

C6_Witness ==
  /\ Finished(1)
  /\ arg[1] = <<0, 0, 27136, 16632>>
  /\ path[1] = <<"libm_sincos_huge">>
  /\ st0[1] = mem[StackAddr(1, 8)]
  /\ ev[1] = BlankEv

\* what cos returns for x when nothing else runs
SoloResult(x) ==
  IF Branch(x) = "tiny" THEN TinyResult(NoWrites, x)
  ELSE IF Branch(x) = "special" THEN SpecialResult(NoWrites, x).v
  ELSE IF Branch(x) = "huge" THEN libm_sincos_huge(NoWrites, x)
  ELSE Bind(FastN(NoWrites, x), LAMBDA n :
         Bind(FastReduce(NoWrites, x, n.Nf), LAMBDA r :
           Bind(Evaluator(NoWrites, EntryOffset(n.N), r.r1, r.r, r.negc),
                LAMBDA e : FinalSum(e).res)))

\* C7: cos writes neither the table nor any other shared memory, every
\* store goes to the calling thread's own frame, and under any
\* interleaving of calls on two threads each call returns what it returns
\* alone.
C7_NoSharedWrites ==
  /\ \A a \in DOMAIN mem :
       a.seg = "stack" /\ a.tid \in Threads /\ pc[a.tid] # "idle"
  /\ \A t \in Threads : Finished(t) => st0[t] = SoloResult(arg[t])

C7_Witness ==
  /\ pc[1] = "fld" /\ pc[2] = "fld"
  /\ fin[1].res # fin[2].res
  /\ mem[StackAddr(1, 0)] = fin[1].res
  /\ mem[StackAddr(2, 0)] = fin[2].res

Summed(t) == Ran(t, "evaluator") /\ pc[t] \in {"spill", "fld", "ret", "done"}

Magnitude(n) == IF n < 0 THEN -n ELSE n

Reduced(t) ==
  Ran(t, "fast_reducer") /\ pc[t] \in {"eval", "sum", "spill", "fld", "ret", "done"}

\* the dyadic number a is zero
XIsZero(a) == BIsZero(a.m)

\* r + c_2 - (x - N*P_1 - N*P_2), without any rounding
ReductionDefect(x, Nf, p1, p2, r, c2) ==
  Bind(<<XMul(Unpack(Nf), Unpack(p1)), XMul(Unpack(Nf), Unpack(p2))>>, LAMBDA q :
    Bind(XAdd(q[1], q[2]), LAMBDA np :
      Bind(XAdd(Unpack(x), XNeg(np)), LAMBDA want :
        Bind(XAdd(Unpack(r), Unpack(c2)), LAMBDA got :
          XAdd(got, XNeg(want))))))

\* C11: on the fast path the reducer computes r1 = x - N*P1, r = r1 - N*P2,
\* c1 = r1 - r, c2 = c1 - N*P2 and c = c2 - N*P3 in that order; the code
\* carries -c = N*P3 - c2, and the evaluator uses this r and multiplies
\* this -c by -d.  The computed r and c2 add up to x - N*(P1 + P2) with no
\* error at all, so r + c is x - N*(P1 + P2 + P3) up to the one rounding
\* of c.
C11_ReductionOrder ==
  \A t \in Threads :
    Reduced(t) =>
      /\ red[t].m1 = FMul(Load64(2128), nred[t].Nf)
      /\ red[t].m2 = FMul(Load64(2112), nred[t].Nf)
      /\ red[t].m3 = FMul(Load64(2144), nred[t].Nf)
      /\ red[t].r1 = FSub(arg[t], red[t].m1)
      /\ red[t].r = FSub(red[t].r1, red[t].m2)
      /\ red[t].c1 = FSub(red[t].r1, red[t].r)
      /\ red[t].c2 = FSub(red[t].c1, red[t].m2)
      /\ red[t].negc = FSub(red[t].m3, red[t].c2)
      /\ \/ Neg(red[t].negc) = FSub(red[t].c2, red[t].m3)
         \/ IsZero(red[t].negc) /\ IsZero(FSub(red[t].c2, red[t].m3))
      /\ XIsZero(ReductionDefect(arg[t], nred[t].Nf, Load64(2128), Load64(2112),
                                 red[t].r, red[t].c2))
      /\ Ran(t, "evaluator") =>
           /\ ev[t].rs = FMul(ev[t].sigma, red[t].r)
           /\ ev[t].med = FMul(red[t].r, ev[t].C_hl)
           /\ ev[t].negd = FSub(FMul(ev[t].S_hi, red[t].r),
                                FAdd(ev[t].C_hl, ev[t].sigma))
           /\ ev[t].corr = FAdd(FMul(red[t].negc, ev[t].negd), ev[t].S_lo)

C11_Witness ==
  /\ Finished(1)
  /\ Ran(1, "evaluator")
  /\ nred[1].N = 32
  /\ ~IsZero(red[1].negc)
  /\ red[1].c2 # red[1].c1
  /\ ev[1].corr # ev[1].S_lo

\* +-2^k, normal: every fraction bit zero, exponent field neither 0 nor 2047
IsPowerOfTwo(d) ==
  /\ d[1] = 0 /\ d[2] = 0 /\ d[3] = 0 /\ d[4] % 16 = 0
  /\ ExpOf(d) # 0 /\ ExpOf(d) # 2047

\* the double at byte offset 24 of entry M, which the evaluator uses as sigma
SigmaOf(M) == Load64(M * 32 + 24)

\* the entry number selected by the byte offset in %eax
EntryNumber(t) == gpr[t].eax \div 32

\* a * b - p without rounding
ProductDefect(a, b, p) ==
  Bind(<<XMul(Unpack(a), Unpack(b))>>, LAMBDA q : XAdd(q[1], XNeg(Unpack(p))))

NBound == 932560

\* number of bits from the leading one to the last one of the significand
SignificantBits(d) ==
  LET m == Sig(d)
      low == CHOOSE k \in 0..52 : BBit(m, k) = 1 /\ \A j \in 0..(k - 1) : BBit(m, j) = 0
  IN BitLen(m) - low

\* integers up to the bound, of either sign, whose products are checked
SampleN ==
  {1, 3, 63, 65535, 524287, 786431, 917873, NBound - 1, NBound,
   -1, -65535, -917873, -NBound}

\* the multiplication of doubles a * b involves no rounding
ExactProduct(a, b) == XIsZero(ProductDefect(a, b, FMul(a, b)))

\* C13: P1 and P2 have at most 32 significant bits each, so for every
\* integer N with |N| <= 932560 the products N*P1 and N*P2 fit in 53 bits
\* and are computed without rounding.
C13_ProductsExact ==
  /\ SignificantBits(Load64(2128)) <= 32
  /\ SignificantBits(Load64(2112)) <= 32
  /\ SignificantBits(Cvtsi2sd(NBound)) + 32 <= 53
  /\ \A n \in SampleN :
       Bind(Cvtsi2sd(n), LAMBDA nf :
         ExactProduct(nf, Load64(2128)) /\ ExactProduct(nf, Load64(2112)))
  /\ \A t \in Threads :
       Reduced(t) =>
         /\ XIsZero(ProductDefect(nred[t].Nf, Load64(2128), red[t].m1))
         /\ XIsZero(ProductDefect(nred[t].Nf, Load64(2112), red[t].m2))

C13_Witness ==
  /\ Reduced(1)
  /\ nred[1].N = 917873
  /\ XIsZero(ProductDefect(nred[1].Nf, Load64(2128), red[1].m1))
  /\ ~XIsZero(ProductDefect(nred[1].Nf, Load64(2144), red[1].m3))

\* the evaluator has read its entry, at the byte offset held in %eax
Loaded(t) == Ran(t, "evaluator")

\* C14 as stated: the entry's fields are stored in the order sigma, c_hl,
\* s_hi, s_lo: sigma is read at offset 0, c_hl at 8, s_hi at 16 and s_lo at
\* 24 of the selected entry.
C14_OrderSigmaFirst ==
  \A t \in Threads :
    Loaded(t) =>
      /\ ev[t].sigma = Load64(gpr[t].eax)
      /\ ev[t].C_hl = Load64(gpr[t].eax + 8)
      /\ ev[t].S_hi = Load64(gpr[t].eax + 16)
      /\ ev[t].S_lo = Load64(gpr[t].eax + 24)

\* C14, amended: the table is 64 contiguous entries of 4 doubles, 32 bytes
\* each and 2048 bytes in all, with the fields in the order c_hl, s_hi,
\* s_lo, sigma: the evaluator multiplies r by the double at offset 0 (med),
\* adds the double at offset 8 to sigma * r (res_int), adds the double at
\* offset 16 in the correction term, and uses the double at offset 24 as
\* sigma.
C14_OrderSigmaLast ==
  /\ Len(static_const_table) * 2 = (64 * 32) + 208
  /\ \A t \in Threads :
       Loaded(t) =>
         /\ gpr[t].eax % 32 = 0 /\ gpr[t].eax >= 0 /\ gpr[t].eax + 32 <= 2048
         /\ ev[t].med = FMul(red[t].r, Load64(gpr[t].eax))
         /\ ev[t].res_int = FAdd(ev[t].rs, Load64(gpr[t].eax + 8))
         /\ ev[t].corr = FAdd(FMul(red[t].negc, ev[t].negd),
                              Load64(gpr[t].eax + 16))
         /\ ev[t].rs = FMul(Load64(gpr[t].eax + 24), red[t].r)
         /\ ev[t].negd = FSub(FMul(Load64(gpr[t].eax + 8), red[t].r),
                              FAdd(Load64(gpr[t].eax), Load64(gpr[t].eax + 24)))

C14_Witness ==
  /\ Finished(1)
  /\ Loaded(1)
  /\ gpr[1].eax = 21 * 32
  /\ ev[1].sigma = Load64(21 * 32 + 24)
  /\ ev[1].sigma # Load64(21 * 32)
  /\ ev[1].S_hi # ev[1].S_lo

(***************************************************************************)
(* Properties of __rem_pio2_fast.                                          *)
(***************************************************************************)
\* the call has returned and its argument took the medium path
MediumReturned ==
  rpc = "ret" /\ Bic31(HighWordOf(rarg)) <= MediumBound

\* rounds run by the call that has returned
RoundsRun == Len(rounds)

\* how far the exponent of the y0 of round k lies below that of the argument
ExponentDrop(k) == ExpOf(rarg) - ExpOf(rounds[k])

\* C15: when the high word of |x| is at most 0x413921fb the medium path
\* runs and __rem_pio2_large is not called; round 1 always runs, round 2
\* runs only if the exponent of y0 after round 1 is more than 16 below that
\* of x, round 3 only if after round 2 it is more than 49 below, never more
\* than three rounds; the call returns y1 = (x - y0) - w of the last round
\* run and n = (int32)fn in r0.
C15_MediumRounds ==
  MediumReturned =>
    /\ large = 0
    /\ RoundsRun \in 1..3
    /\ (RoundsRun >= 2) = (ExponentDrop(1) > 16)
    /\ (RoundsRun = 3) = (RoundsRun >= 2 /\ ExponentDrop(2) > 49)
    /\ vfp.d17 = FSub(Vfma(Lmagic, rarg, Linvpio2), Lmagic)
    /\ reg.r0 = Vcvt_s32_f64(vfp.d17)
    /\ Cvtsi2sd(reg.r0) = FAdd(vfp.d17, Zero(0))
    /\ vfp.d2 = rounds[RoundsRun]
    /\ vfp.d2 = FSub(vfp.d0, vfp.d18)
    /\ IF RoundsRun = 1
         THEN /\ vfp.d0 = Vfms(rarg, vfp.d17, Lpio2_1)
              /\ vfp.d18 = FMul(vfp.d17, Lpio2_1t)
         ELSE /\ vfp.d4 = FMul(vfp.d17, Pool(RoundsRun).hi)
              /\ vfp.d5 = FMul(vfp.d17, Pool(RoundsRun).lo)
              /\ vfp.d18 = FSub(vfp.d5, vfp.d6)
    /\ vfp.d3 = FSub(FSub(vfp.d0, vfp.d2), vfp.d18)

C15_Witness ==
  /\ MediumReturned
  /\ rarg = <<11544, 21572, 8699, 16377>>
  /\ RoundsRun = 3
  /\ reg.r0 = 1
  /\ large = 0
  /\ ~IsZero(vfp.d3)

(***************************************************************************)
(* Properties of LinkedList.                                               *)
(***************************************************************************)
\* no member function is running
Quiet_List == lpc.op = "idle"

\* no entry occurs twice in the sequence
NoRepeat(s) == \A i \in 1..Len(s) : \A k \in 1..Len(s) : s[i] = s[k] => i = k

\* C16: after any sequence of push_front, push_back, pop_front, clear,
\* for_each and remove_if on a new list, head_ is null iff tail_ is null,
\* and when the list is not empty the chain of next pointers from head_ has
\* no cycle, ends at tail_, and tail_->next is null.
C16_HeadTailChain ==
  Quiet_List =>
    /\ (head_ = nullptr) = (tail_ = nullptr)
    /\ head_ # nullptr =>
         /\ Len(Chain) <= MaxEntries
         /\ NoRepeat(Chain)
         /\ Chain[Len(Chain)] = tail_
         /\ heap[tail_].next = nullptr

C16_Witness ==
  /\ Quiet_List
  /\ Len(Chain) = 3
  /\ Chain[3] = tail_
  /\ head_ # tail_
  /\ log.last.op = "remove_if"
  /\ log.how[head_] = "front"
  /\ log.how[tail_] = "back"

Reverse(s) == [i \in 1..Len(s) |-> s[Len(s) + 1 - i]]

\* the objects of a sequence of slots, nullptr slots left out
NonNull(s) == SelectSeq(s, LAMBDA x : x # nullptr)

\* every entry of the list was made by the push named
AllPushedBy(kind) == \A a \in live : log.how[a] = kind

\* C17: the list is a sequence of element slots: push_front prepends a
\* slot, push_back appends one, pop_front removes the first slot and
\* returns its element, for_each calls the action on the non-null elements
\* in order, pop_front on an empty list returns nullptr and changes
\* nothing; entries added only by push_back leave by pop_front oldest
\* first, entries added only by push_front newest first.
C17_SequenceOfSlots ==
  Quiet_List =>
    /\ log.last.op = "push_front" => Slots = <<log.last.arg>> \o log.slots
    /\ log.last.op = "push_back" => Slots = Append(log.slots, log.last.arg)
    /\ log.last.op = "pop_front" /\ log.slots # <<>>
         => /\ log.last.ret = Head(log.slots)
            /\ Slots = Tail(log.slots)
            /\ Chain = Tail(log.chain)
    /\ log.last.op = "pop_front" /\ log.slots = <<>>
         => /\ log.last.ret = nullptr
            /\ Slots = <<>> /\ head_ = nullptr /\ tail_ = nullptr
            /\ live = log.alive
    /\ log.last.op = "for_each"
         => log.last.seen = NonNull(log.slots) /\ Slots = log.slots
    /\ AllPushedBy("back") => Chain = log.order
    /\ AllPushedBy("front") => Chain = Reverse(log.order)

C17_Witness ==
  /\ Quiet_List
  /\ log.last.op = "pop_front"
  /\ log.slots = <<2, 1, 2>>
  /\ log.last.ret = 2
  /\ Slots = <<1, 2>>
  /\ AllPushedBy("back")

\* the entries a sequence of entries consists of
Range(s) == {s[i] : i \in 1..Len(s)}

\* the slots as remove_if(predicate) leaves them
Removed(s, predicate) ==
  [i \in 1..Len(s) |-> IF s[i] \in predicate THEN nullptr ELSE s[i]]

\* C18: the entries obtained from Allocator::alloc and not yet passed to
\* Allocator::free are exactly those reachable from head_, and none is
\* freed twice; a push allocates one entry, a pop_front on a non-empty list
\* frees one, clear frees all and leaves none, for_each and remove_if
\* allocate and free nothing, and remove_if only sets the element of each
\* matching entry to nullptr, the entries and their order staying as they
\* were.
C18_AllocatedIsReachable ==
  /\ live = Range(Chain)
  /\ ~log.double_free
  /\ ~log.wild
  /\ lpc.op \in {"for_each", "remove_if"} =>
       live = log.alive /\ Chain = log.chain
  /\ Quiet_List =>
       /\ log.last.op \in {"push_front", "push_back"}
            => /\ Cardinality(live) = Cardinality(log.alive) + 1
               /\ log.alive \subseteq live
       /\ log.last.op = "pop_front" /\ log.chain # <<>>
            => live = log.alive \ {Head(log.chain)} /\ Head(log.chain) \in log.alive
       /\ log.last.op = "pop_front" /\ log.chain = <<>> => live = {}
       /\ log.last.op = "clear" => live = {} /\ Chain = <<>>
       /\ log.last.op = "for_each"
            => live = log.alive /\ Chain = log.chain /\ Slots = log.slots
       /\ log.last.op = "remove_if"
            => /\ live = log.alive /\ Chain = log.chain
               /\ Slots = Removed(log.slots, log.last.pred)

C18_Witness ==
  /\ Quiet_List
  /\ log.last.op = "remove_if"
  /\ log.last.pred = {1}
  /\ log.slots = <<1, 2, 1>>
  /\ Slots = <<nullptr, 2, nullptr>>
  /\ Cardinality(live) = 3
  /\ heap[2] = [next |-> 3, element |-> 2]
====
